---- MODULE Spec2Model ----
(***************************************************************************)
(* A model of the rate limiter of rate-limiting-service-python:            *)
(* the key-value storage with expiry (MemoryStorage, RedisStorage), the    *)
(* TokenBucket and SlidingWindow algorithms, the callers that run check    *)
(* and reset against them, and RateLimiter: identity and policy            *)
(* resolution, dispatch and metrics.                                       *)
(*                                                                         *)
(* Time is the wall clock in milliseconds.  int(time.time() * 1000) is     *)
(* clock, int(time.time()) is clock \div 1000, and time.time() + ttl is    *)
(* clock + ttl * 1000.                                                     *)
(*                                                                         *)
(* Python floats are modelled as exact rationals: a token count is kept as *)
(* its numerator over TokScale, so that refill, min, the comparison with 1 *)
(* and int() are computed without rounding.                                *)
(*                                                                         *)
(* One caller (a request-handling task or thread) executes one storage     *)
(* call per step; the code between two storage calls belongs to the step   *)
(* of the call before it.                                                  *)
(***************************************************************************)
EXTENDS Integers, Sequences, FiniteSets, TLC

VARIABLES
    clock,        \* time.time(), in milliseconds
    ticks,        \* how many times the clock has advanced (bounded)
    storageType,  \* options['storage']['type']: "memory" or "redis"
    algorithm,    \* RateLimiter.algorithm, the limiter's default algorithm
    policy,       \* the options the limiter's checks are made with
    data,         \* MemoryStorage._data / the keyspace of the Redis server
    expirations,  \* MemoryStorage._expirations / the expiry of Redis keys (ms)
    pc,           \* where each caller is in its check, reset or incr
    loc,          \* the local variables of each caller's running operation
    result,       \* the last value returned to each caller
    hist,         \* history: the run of checks since time last advanced
    wins,         \* history: checks allowed per window since the last reset
    endpoint_overrides,  \* options['endpoint_overrides']: route path -> options
    client_identifier,   \* options['client_identifier']
    metrics,      \* RateLimiter.metrics
    closed,       \* close() of the storage has been called
    cleaner,      \* where MemoryStorage's clean_expired_keys task is:
                  \* "sweep", "sleep", or "none" when there is no such task
    connection    \* RedisStorage.connected and RedisStorage.redis, with the
                  \* count of the clients made by aioredis.from_url

(* The options, and the Redis connection, which the checks and resets take as
   they find them: connecting is followed in ConnSpec only *)
config == <<storageType, algorithm, policy, endpoint_overrides, client_identifier,
            connection>>
store == <<data, expirations>>
vars == <<clock, ticks, storageType, algorithm, policy, data, expirations,
          pc, loc, result, hist, wins,
          endpoint_overrides, client_identifier, metrics, closed, cleaner,
          connection>>

----------------------------------------------------------------------------
(* Bounds of the model *)

NumProcs == 3
MaxRate == 3
MaxTicks == 4

Procs == 1..NumProcs
Rates == 1..MaxRate
Intervals == {"second", "minute"}
Algorithms == {"token_bucket", "sliding_window"}
StorageTypes == {"memory", "redis"}
Ident == <<"ip", "1.2.3.4">>

----------------------------------------------------------------------------
(* Program constants *)

MsPerSecond == 1000

Min(a, b) == IF a <= b THEN a ELSE b
Max(a, b) == IF a >= b THEN a ELSE b

(* utils.get_interval_in_seconds *)
get_interval_in_seconds(interval) ==
    CASE interval = "second" -> 1
      [] interval = "minute" -> 60
      [] interval = "hour" -> 60 * 60
      [] interval = "day" -> 24 * 60 * 60
      [] interval = "week" -> 7 * 24 * 60 * 60
      [] interval = "month" -> 30 * 24 * 60 * 60
      [] OTHER -> 60

(* Every token count is a multiple of 1 / TokScale for the intervals of    *)
(* the model: refill is elapsed_ms * rate / (1000 * interval_seconds).     *)
TokScale == MsPerSecond * get_interval_in_seconds("minute")

----------------------------------------------------------------------------
(* Stored values are Python strings.  str(int) and str(float) are kept     *)
(* apart: int() parses only the first, float() parses both.                *)

None == [t |-> "none"]
IntStr(n) == [t |-> "i", v |-> n]          \* str(n) for an int n
BadStr == [t |-> "s"]                      \* a string that is not a number, "abc"
FloatStr(num) == [t |-> "f", v |-> num]    \* str(x) for the float num / TokScale

IntParses(s) == s.t = "i"                  \* int(s) does not raise
FloatParses(s) == s.t \in {"i", "f"}       \* float(s) does not raise
IntOf(s) == s.v                            \* int(s), for IntParses(s)
FloatOf(s) == IF s.t = "i" THEN s.v * TokScale ELSE s.v   \* float(s), as a numerator

(* Dictionaries *)
Put(f, k, v) == [x \in (DOMAIN f) \cup {k} |-> IF x = k THEN v ELSE f[x]]
Drop(f, k) == [x \in (DOMAIN f) \ {k} |-> f[x]]
Empty == [x \in {} |-> None]

(* Storage keys *)
TbKey(id) == <<"tb">> \o id
TbLastKey(id) == <<"tb">> \o id \o <<"last">>
SwKey(id, window) == <<"sw">> \o id \o <<ToString(window)>>

----------------------------------------------------------------------------
(* MemoryStorage.  Each operator takes the two dictionaries and the time   *)
(* and returns them with the call's return value.                          *)

(* A get that leaves expiry to the cleaner *)
MemGetUnexpired(d, e, key, t) ==
    [d |-> d, e |-> e, ret |-> IF key \in DOMAIN d THEN d[key] ELSE None]

MemGet(d, e, key, t) ==
    IF key \in DOMAIN d
    THEN IF key \in DOMAIN e /\ e[key] <= t
         THEN [d |-> Drop(d, key), e |-> Drop(e, key), ret |-> None]
         ELSE [d |-> d, e |-> e, ret |-> d[key]]
    ELSE [d |-> d, e |-> e, ret |-> None]

(* A set that keeps the expiry the key had when no ttl is given *)
MemSetKeepsExpiry(d, e, key, value, ttl, t) ==
    [d |-> Put(d, key, value),
     e |-> IF ttl # 0 THEN Put(e, key, t + ttl * MsPerSecond) ELSE e,
     ret |-> TRUE]

(* ttl = 0 stands for both ttl=None and ttl=0: "if ttl:" takes neither *)
MemSet(d, e, key, value, ttl, t) ==
    [d |-> Put(d, key, value),
     e |-> IF ttl # 0
           THEN Put(e, key, t + ttl * MsPerSecond)
           ELSE Drop(e, key),
     ret |-> TRUE]

(* An incr that returns the value it found *)
MemIncrSetStale(d, e, key, value, t) ==
    LET v0 == IF value = None THEN IntStr(0) ELSE value
        nv == IF IntParses(v0) THEN IntOf(v0) + 1 ELSE 1
    IN [d |-> Put(d, key, IntStr(nv)), e |-> Drop(e, key), ret |-> nv - 1]

(* The second half of MemoryStorage.incr: value is what its get returned *)
MemIncrSet(d, e, key, value, t) ==
    LET v0 == IF value = None THEN IntStr(0) ELSE value
        nv == IF IntParses(v0) THEN IntOf(v0) + 1 ELSE 1
        s == MemSet(d, e, key, IntStr(nv), 0, t)
    IN [d |-> s.d, e |-> s.e, ret |-> nv]

MemExpire(d, e, key, ttl, t) ==
    IF key \in DOMAIN d
    THEN [d |-> d, e |-> Put(e, key, t + ttl * MsPerSecond), ret |-> 1]
    ELSE [d |-> d, e |-> e, ret |-> 0]

(* A delete that leaves the key's expiry behind *)
MemDeleteDataOnly(d, e, key) ==
    IF key \in DOMAIN d
    THEN [d |-> Drop(d, key), e |-> e, ret |-> 1]
    ELSE [d |-> d, e |-> e, ret |-> 0]

MemDelete(d, e, key) ==
    IF key \in DOMAIN d
    THEN [d |-> Drop(d, key), e |-> Drop(e, key), ret |-> 1]
    ELSE [d |-> d, e |-> e, ret |-> 0]

----------------------------------------------------------------------------
(* RedisStorage: the calls it forwards to the server.  The server removes  *)
(* a key whose expiry has passed before it serves a command on it.         *)

RedisLive(d, e, key, t) == key \in DOMAIN d /\ ~(key \in DOMAIN e /\ e[key] <= t)

RedisPurge(d, e, key, t) ==
    IF key \in DOMAIN d /\ ~RedisLive(d, e, key, t)
    THEN [d |-> Drop(d, key), e |-> Drop(e, key)]
    ELSE [d |-> d, e |-> e]

RedisGet(d, e, key, t) ==
    LET p == RedisPurge(d, e, key, t)
    IN [d |-> p.d, e |-> p.e, ret |-> IF key \in DOMAIN p.d THEN p.d[key] ELSE None]

(* setex when "if ttl:" holds, else set, which discards the expiry *)
RedisSet(d, e, key, value, ttl, t) ==
    [d |-> Put(d, key, value),
     e |-> IF ttl # 0
           THEN Put(e, key, t + ttl * MsPerSecond)
           ELSE Drop(e, key),
     ret |-> TRUE]

(* INCR is one command: it keeps the key's expiry *)
RedisIncr(d, e, key, t) ==
    LET p == RedisPurge(d, e, key, t)
        old == IF key \in DOMAIN p.d THEN p.d[key] ELSE IntStr(0)
        nv == IntOf(old) + 1
    IN [d |-> Put(p.d, key, IntStr(nv)), e |-> p.e, ret |-> nv]

RedisExpire(d, e, key, ttl, t) ==
    LET p == RedisPurge(d, e, key, t)
    IN IF key \in DOMAIN p.d
       THEN [d |-> p.d, e |-> Put(p.e, key, t + ttl * MsPerSecond), ret |-> 1]
       ELSE [d |-> p.d, e |-> p.e, ret |-> 0]

(* DEL *)
RedisDelete(d, e, key, t) ==
    LET p == RedisPurge(d, e, key, t)
    IN IF key \in DOMAIN p.d
       THEN [d |-> Drop(p.d, key), e |-> Drop(p.e, key), ret |-> 1]
       ELSE [d |-> p.d, e |-> p.e, ret |-> 0]

----------------------------------------------------------------------------
(* The storage interface the algorithms call *)

StorageGet(key) ==
    IF storageType = "redis"
    THEN RedisGet(data, expirations, key, clock)
    ELSE MemGet(data, expirations, key, clock)

StorageSet(key, value, ttl) ==
    IF storageType = "redis"
    THEN RedisSet(data, expirations, key, value, ttl, clock)
    ELSE MemSet(data, expirations, key, value, ttl, clock)

StorageExpire(key, ttl) ==
    IF storageType = "redis"
    THEN RedisExpire(data, expirations, key, ttl, clock)
    ELSE MemExpire(data, expirations, key, ttl, clock)

StorageDelete(key) ==
    IF storageType = "redis"
    THEN RedisDelete(data, expirations, key, clock)
    ELSE MemDelete(data, expirations, key)

----------------------------------------------------------------------------
(* Options dictionaries are records; options.get(k, default) *)

DefaultRate == 60

OptGet(o, k, default) == IF k \in DOMAIN o THEN o[k] ELSE default

OptRate(o) == OptGet(o, "rate", DefaultRate)
OptSeconds(o) == get_interval_in_seconds(OptGet(o, "interval", "minute"))

(* int(x) of a quotient: truncation towards zero, for b # 0 *)
TruncDiv(a, b) ==
    LET q == (IF a >= 0 THEN a ELSE -a) \div (IF b > 0 THEN b ELSE -b)
    IN IF (a >= 0) = (b > 0) THEN q ELSE -q

----------------------------------------------------------------------------
(* What the callers get back *)

NoResult == [kind |-> "none"]
Raised(what) == [kind |-> "error", error |-> what]
Done == [kind |-> "ok"]
Decision(allowed, limit, remaining, reset, retry_after) ==
    [kind |-> "decision", allowed |-> allowed, limit |-> limit,
     remaining |-> remaining, reset |-> reset, retry_after |-> retry_after]

IsDecision(r) == r.kind = "decision"

NoLoc == [op |-> "none"]
NoRequest == [path |-> <<>>]

(* The locals of an operation as it starts.  request, m and result are those
   of RateLimiter.check: the request, the counter value it has read and the
   result the algorithm returned to it. *)
NewLoc(op, alg, opts, id) ==
    [op |-> op, alg |-> alg, opts |-> opts, id |-> id, now |-> 0,
     current_tokens |-> None, new_tokens |-> 0,
     current_count |-> None, weighted |-> 0, key |-> <<>>, value |-> None,
     allowed |-> FALSE, tokens_is_int |-> FALSE,
     request |-> NoRequest, m |-> 0, result |-> NoResult]

----------------------------------------------------------------------------
(* TokenBucket: the arithmetic of check.  Token counts are numerators over *)
(* TokScale.                                                               *)

(* Variant: the bucket is never refilled *)
TbRefillTokensNone(elapsed_ms, rate, interval_seconds) == 0

(* refill_tokens = (elapsed_ms / 1000) * (rate / interval_seconds), as a
   numerator: TokScale is a multiple of 1000 * interval_seconds *)
TbRefillTokens(elapsed_ms, rate, interval_seconds) ==
    elapsed_ms * rate * (TokScale \div (MsPerSecond * interval_seconds))

(* Variant: the refilled bucket is not capped at rate *)
TbRefilledUncapped(current_tokens, last_update, now, rate, interval_seconds) ==
    current_tokens
      + (now - last_update) * rate * (TokScale \div (MsPerSecond * interval_seconds))

(* new_tokens = min(current_tokens + refill_tokens, rate) *)
TbRefilled(current_tokens, last_update, now, rate, interval_seconds) ==
    Min(current_tokens + TbRefillTokens(now - last_update, rate, interval_seconds),
        rate * TokScale)

(* min(a, rate) returns the int rate when a > rate and the float a otherwise,
   and "new_tokens -= 1" keeps the type: new_tokens is an int exactly when the
   refilled bucket was capped *)
TbCapped(current_tokens, last_update, now, rate, interval_seconds) ==
    current_tokens + TbRefillTokens(now - last_update, rate, interval_seconds)
        > rate * TokScale

(* str(tokens): "2" for the int 2, "2.0" for the float *)
TbTokensStr(new_tokens, is_int) ==
    IF is_int THEN IntStr(TruncDiv(new_tokens, TokScale)) ELSE FloatStr(new_tokens)

(* Variant: allowed = new_tokens > 1 *)
TbAllowedStrict(new_tokens) == new_tokens > TokScale

(* allowed = new_tokens >= 1 *)
TbAllowed(new_tokens) == new_tokens >= TokScale

(* new_tokens after "if allowed: new_tokens -= 1" *)
TbConsumed(new_tokens) ==
    IF TbAllowed(new_tokens) THEN new_tokens - TokScale ELSE new_tokens

(* int(ms_until_refill / 1000); rate / interval_seconds is not zero *)
TbResetSeconds(allowed, new_tokens, rate, interval_seconds) ==
    IF allowed
    THEN TruncDiv((rate * TokScale - new_tokens) * interval_seconds, rate * TokScale)
    ELSE TruncDiv((TokScale - new_tokens) * interval_seconds, rate * TokScale)

(* The dictionary check returns; new_tokens is the stored count *)
TbDecision(allowed, new_tokens, rate, interval_seconds) ==
    IF rate = 0
    THEN Raised("ZeroDivisionError")
    ELSE Decision(allowed, rate, TruncDiv(new_tokens, TokScale),
                  TbResetSeconds(allowed, new_tokens, rate, interval_seconds),
                  IF allowed THEN 0
                  ELSE TbResetSeconds(allowed, new_tokens, rate, interval_seconds))

----------------------------------------------------------------------------
(* SlidingWindow: the arithmetic of check.  now is in whole seconds.       *)

SwCurrentWindow(now, interval_seconds) == (now \div interval_seconds) * interval_seconds
SwPreviousWindow(now, interval_seconds) ==
    SwCurrentWindow(now, interval_seconds) - interval_seconds

(* Variant: a fixed window, the previous window's count is not weighed in *)
SwWeightedCurrentOnly(current_count, previous_count, now, interval_seconds) ==
    current_count * interval_seconds

(* weighted_count * interval_seconds *)
SwWeighted(current_count, previous_count, now, interval_seconds) ==
    current_count * interval_seconds
      + previous_count * (interval_seconds - (now % interval_seconds))

(* allowed = weighted_count < rate *)
SwAllowed(weighted, rate, interval_seconds) == weighted < rate * interval_seconds

SwDecision(allowed, weighted, rate, now, interval_seconds) ==
    LET used == IF allowed THEN 1 ELSE 0
        remaining == Max(0, TruncDiv((rate - used) * interval_seconds - weighted,
                                     interval_seconds))
        reset == interval_seconds - (now % interval_seconds)
    IN Decision(allowed, rate, remaining, reset, IF allowed THEN 0 ELSE reset)

----------------------------------------------------------------------------
(* History kept for the statements checked below; the program does not     *)
(* read it.                                                                *)

RunCap == MaxRate + 2
IdleCap == MsPerSecond * get_interval_in_seconds("minute")
CountCap == MaxRate * (MaxTicks + 2)

(* n: the checks returned since time last advanced or a reset returned (capped);
   start: what began that run; idle: the time that passed without any call
   before it (capped); after_denied: the last check before it was denied;
   reset: the algorithm and options of the reset that began it;
   base: the integer the incremented key held at the start (IncrSpec);
   started: the calls of RateLimiter.check begun; denied: those that returned
   a Decision with allowed = false; failed: the callers in whose current or
   last check a storage call failed;
   last_write: the last call of a user of the storage that was not a get, and
   before: what the key held when that call began (StoreSpec);
   mark: the time from which the allowed checks are counted, or -1, and
   count: the checks allowed from then on, capped (SpanSpec) *)
FreshHist ==
    [n |-> 0, start |-> "fresh", idle |-> 0, after_denied |-> FALSE,
     reset |-> NoLoc, base |-> 0, started |-> 0, denied |-> 0, failed |-> {},
     last_write |-> NoLoc, before |-> NoLoc, mark |-> -1, count |-> 0]

WasDenied(res) == IsDecision(res) /\ ~res.allowed
NoWins == [w |-> 0, cur |-> 0, prev |-> 0]

(* A check of the policy's algorithm has returned res *)
HistAfterCheck(res) ==
    [hist EXCEPT !.n = Min(hist.n + 1, RunCap),
                 !.count = IF /\ hist.mark >= 0 /\ clock >= hist.mark
                              /\ IsDecision(res) /\ res.allowed
                           THEN Min(@ + 1, CountCap) ELSE @]

(* A reset has returned; l is the caller's loc, last what it was returned before *)
HistAfterReset(l, last) ==
    [hist EXCEPT !.n = 0, !.start = "reset", !.idle = 0,
                 !.after_denied = IF hist.n > 0 THEN WasDenied(last) ELSE @,
                 !.reset = [alg |-> l.alg, opts |-> l.opts]]

HistAfterTick(d, last) ==
    [hist EXCEPT !.n = 0,
                 !.start = IF hist.start = "fresh" /\ hist.n = 0 THEN "fresh" ELSE "tick",
                 !.idle = IF hist.n > 0 THEN d ELSE Min(hist.idle + d, IdleCap),
                 !.after_denied = IF hist.n > 0 THEN WasDenied(last) ELSE @,
                 !.reset = NoLoc]

(* A sliding-window check made at second now has returned res *)
WinsAfterCheck(res, now, interval_seconds) ==
    LET w == SwCurrentWindow(now, interval_seconds)
        a == IF IsDecision(res) /\ res.allowed THEN 1 ELSE 0
        shifted == IF w = wins.w THEN wins
                   ELSE IF w = wins.w + interval_seconds
                        THEN [w |-> w, cur |-> 0, prev |-> wins.cur]
                        ELSE [w |-> w, cur |-> 0, prev |-> 0]
    IN [shifted EXCEPT !.cur = Min(shifted.cur + a, RunCap)]

----------------------------------------------------------------------------
(* A caller returns from its operation.  An algorithm's check called by
   RateLimiter.check returns its dictionary to it: result = await ...check(...) *)

Finish(p, res) ==
    /\ pc' = [pc EXCEPT ![p] = "idle"]
    /\ loc' = [loc EXCEPT ![p] = NoLoc]
    /\ result' = [result EXCEPT ![p] = res]

Return(p, res) ==
    IF loc[p].op = "rl_check" /\ IsDecision(res)
    THEN /\ pc' = [pc EXCEPT ![p] = "rl_result"]
         /\ loc' = [loc EXCEPT ![p] = [loc[p] EXCEPT !.result = res]]
         /\ UNCHANGED result
    ELSE Finish(p, res)

(* The exception leaves through check untouched *)
Raise(p, what) ==
    /\ Return(p, Raised(what))
    /\ UNCHANGED <<hist, wins>>

----------------------------------------------------------------------------
(* TokenBucket.check, one storage call per step *)

(* _get_bucket_state: current_tokens = await self.storage.get(bucket_key) *)
TbGetTokens(p) ==
    /\ pc[p] = "tb_get_tokens"
    /\ LET g == StorageGet(TbKey(loc[p].id))
       IN /\ data' = g.d
          /\ expirations' = g.e
          /\ loc' = [loc EXCEPT ![p] = [@ EXCEPT !.current_tokens = g.ret]]
    /\ pc' = [pc EXCEPT ![p] = "tb_get_last"]
    /\ UNCHANGED <<clock, ticks, config, metrics, closed, cleaner, result, hist, wins>>

(* _get_bucket_state: last_update = await self.storage.get(last_update_key), the
   conversions, and check up to the call of _store_bucket_state *)
TbGetLast(p) ==
    /\ pc[p] = "tb_get_last"
    /\ LET l == loc[p]
           rate == OptRate(l.opts)
           interval_seconds == OptSeconds(l.opts)
           g == StorageGet(TbLastKey(l.id))
       IN /\ data' = g.d
          /\ expirations' = g.e
          /\ IF (l.current_tokens # None /\ ~FloatParses(l.current_tokens))
                \/ (g.ret # None /\ ~IntParses(g.ret))
             THEN Raise(p, "ValueError")
             ELSE LET current_tokens == IF l.current_tokens = None
                                        THEN rate * TokScale
                                        ELSE FloatOf(l.current_tokens)
                      last_update == IF g.ret = None THEN clock ELSE IntOf(g.ret)
                      now == clock
                      refilled == TbRefilled(current_tokens, last_update, now,
                                             rate, interval_seconds)
                  IN /\ loc' = [loc EXCEPT ![p] =
                                  [@ EXCEPT !.now = now,
                                            !.allowed = TbAllowed(refilled),
                                            !.new_tokens = TbConsumed(refilled),
                                            !.tokens_is_int =
                                                TbCapped(current_tokens, last_update,
                                                         now, rate, interval_seconds)]]
                     /\ pc' = [pc EXCEPT ![p] = "tb_set_tokens"]
                     /\ UNCHANGED <<result, hist, wins>>
    /\ UNCHANGED <<clock, ticks, config, metrics, closed, cleaner>>

(* A bucket state kept for half the interval *)
TbStateTtlHalf(interval_seconds) == interval_seconds \div 2

(* The ttl of the bucket's two keys: ttl=interval_seconds *)
TbStateTtl(interval_seconds) == interval_seconds

(* _store_bucket_state: await self.storage.set(bucket_key, str(tokens), ttl) *)
TbSetTokens(p) ==
    /\ pc[p] = "tb_set_tokens"
    /\ LET l == loc[p]
           s == StorageSet(TbKey(l.id), TbTokensStr(l.new_tokens, l.tokens_is_int),
                           TbStateTtl(OptSeconds(l.opts)))
       IN /\ data' = s.d
          /\ expirations' = s.e
    /\ pc' = [pc EXCEPT ![p] = "tb_set_last"]
    /\ UNCHANGED <<clock, ticks, config, metrics, closed, cleaner, loc, result, hist, wins>>

(* _store_bucket_state: await self.storage.set(last_update_key, str(update_time),
   ttl), and the rest of check *)
TbSetLast(p) ==
    /\ pc[p] = "tb_set_last"
    /\ LET l == loc[p]
           s == StorageSet(TbLastKey(l.id), IntStr(l.now),
                           TbStateTtl(OptSeconds(l.opts)))
           res == TbDecision(l.allowed, l.new_tokens, OptRate(l.opts),
                             OptSeconds(l.opts))
       IN /\ data' = s.d
          /\ expirations' = s.e
          /\ Return(p, res)
          /\ hist' = HistAfterCheck(res)
    /\ UNCHANGED <<clock, ticks, config, metrics, closed, cleaner, wins>>

(* Variant: reset empties the bucket *)
TbResetValueEmpty(opts) == IntStr(0)

(* TokenBucket.reset *)
TbResetValue(opts) == IntStr(OptRate(opts))       \* str(rate)

TbResetTokens(p) ==
    /\ pc[p] = "tbr_set_tokens"
    /\ LET l == loc[p]
           s == StorageSet(TbKey(l.id), TbResetValue(l.opts), 0)
       IN /\ data' = s.d
          /\ expirations' = s.e
    /\ pc' = [pc EXCEPT ![p] = "tbr_set_last"]
    /\ UNCHANGED <<clock, ticks, config, metrics, closed, cleaner, loc, result, hist, wins>>

TbResetLast(p) ==
    /\ pc[p] = "tbr_set_last"
    /\ LET l == loc[p]
           s == StorageSet(TbLastKey(l.id), IntStr(clock), 0)
       IN /\ data' = s.d
          /\ expirations' = s.e
          /\ hist' = HistAfterReset(l, result[p])
    /\ Return(p, Done)
    /\ UNCHANGED <<clock, ticks, config, metrics, closed, cleaner, wins>>

----------------------------------------------------------------------------
(* SlidingWindow.check, one storage call per step *)

SwCurrentKey(l) == SwKey(l.id, SwCurrentWindow(l.now, OptSeconds(l.opts)))
SwPreviousKey(l) == SwKey(l.id, SwPreviousWindow(l.now, OptSeconds(l.opts)))

(* now = int(time.time()), and _get_window_counts:
   current_count = await self.storage.get(current_key) *)
SwGetCurrent(p) ==
    /\ pc[p] = "sw_get_current"
    /\ LET l == [loc[p] EXCEPT !.now = clock \div MsPerSecond]
           g == StorageGet(SwCurrentKey(l))
       IN /\ data' = g.d
          /\ expirations' = g.e
          /\ loc' = [loc EXCEPT ![p] = [l EXCEPT !.current_count = g.ret]]
    /\ pc' = [pc EXCEPT ![p] = "sw_get_previous"]
    /\ UNCHANGED <<clock, ticks, config, metrics, closed, cleaner, result, hist, wins>>

(* _get_window_counts: previous_count = await self.storage.get(previous_key), the
   conversions, and check up to the call of incr or to its return *)
SwGetPrevious(p) ==
    /\ pc[p] = "sw_get_previous"
    /\ LET l == loc[p]
           rate == OptRate(l.opts)
           interval_seconds == OptSeconds(l.opts)
           g == StorageGet(SwPreviousKey(l))
       IN /\ data' = g.d
          /\ expirations' = g.e
          /\ IF (l.current_count # None /\ ~IntParses(l.current_count))
                \/ (g.ret # None /\ ~IntParses(g.ret))
             THEN Raise(p, "ValueError")
             ELSE LET current_count == IF l.current_count = None THEN 0
                                       ELSE IntOf(l.current_count)
                      previous_count == IF g.ret = None THEN 0 ELSE IntOf(g.ret)
                      weighted == SwWeighted(current_count, previous_count, l.now,
                                             interval_seconds)
                      allowed == SwAllowed(weighted, rate, interval_seconds)
                      res == SwDecision(allowed, weighted, rate, l.now, interval_seconds)
                  IN IF allowed
                     THEN /\ loc' = [loc EXCEPT ![p] =
                                       [@ EXCEPT !.weighted = weighted,
                                                 !.allowed = allowed,
                                                 !.key = SwCurrentKey(l)]]
                          /\ pc' = [pc EXCEPT ![p] = "incr"]
                          /\ UNCHANGED <<result, hist, wins>>
                     ELSE /\ Return(p, res)
                          /\ hist' = HistAfterCheck(res)
                          /\ wins' = WinsAfterCheck(res, l.now, interval_seconds)
    /\ UNCHANGED <<clock, ticks, config, metrics, closed, cleaner>>

(* await self.storage.incr(key).  RedisStorage.incr is one INCR command;
   MemoryStorage.incr begins with value = await self.get(key).  The caller is
   SlidingWindow.check (which goes on to expire) or a user of the storage. *)
AfterIncr(p, l, ret) ==
    IF l.op = "incr"
    THEN Return(p, [kind |-> "int", value |-> ret])
    ELSE /\ pc' = [pc EXCEPT ![p] = "sw_expire"]
         /\ loc' = [loc EXCEPT ![p] = l]
         /\ UNCHANGED result

Incr(p) ==
    /\ pc[p] = "incr"
    /\ LET l == loc[p]
       IN IF storageType = "redis"
          THEN IF l.key \in DOMAIN data
                  /\ RedisLive(data, expirations, l.key, clock)
                  /\ ~IntParses(data[l.key])
               THEN /\ Return(p, Raised("ResponseError"))
                    /\ UNCHANGED store
               ELSE LET r == RedisIncr(data, expirations, l.key, clock)
                    IN /\ data' = r.d
                       /\ expirations' = r.e
                       /\ AfterIncr(p, l, r.ret)
          ELSE LET g == MemGet(data, expirations, l.key, clock)
               IN /\ data' = g.d
                  /\ expirations' = g.e
                  /\ loc' = [loc EXCEPT ![p] = [l EXCEPT !.value = g.ret]]
                  /\ pc' = [pc EXCEPT ![p] = "incr_set"]
                  /\ UNCHANGED result
    /\ UNCHANGED <<clock, ticks, config, metrics, closed, cleaner, hist, wins>>

(* MemoryStorage.incr from "if value is None" on: await self.set(key, str(new_value)) *)
IncrSet(p) ==
    /\ pc[p] = "incr_set"
    /\ LET l == loc[p]
           s == MemIncrSet(data, expirations, l.key, l.value, clock)
       IN /\ data' = s.d
          /\ expirations' = s.e
          /\ AfterIncr(p, [l EXCEPT !.value = None], s.ret)
    /\ UNCHANGED <<clock, ticks, config, metrics, closed, cleaner, hist, wins>>

(* A counter kept for its own window only *)
SwCounterTtlOneWindow(interval_seconds) == interval_seconds

(* The ttl given to the current window's counter: interval_seconds * 2 *)
SwCounterTtl(interval_seconds) == interval_seconds * 2

(* await self.storage.expire(current_window_key, interval_seconds * 2), and the
   rest of check *)
SwExpire(p) ==
    /\ pc[p] = "sw_expire"
    /\ LET l == loc[p]
           interval_seconds == OptSeconds(l.opts)
           x == StorageExpire(SwCurrentKey(l), SwCounterTtl(interval_seconds))
           res == SwDecision(l.allowed, l.weighted, OptRate(l.opts), l.now,
                             interval_seconds)
       IN /\ data' = x.d
          /\ expirations' = x.e
          /\ Return(p, res)
          /\ hist' = HistAfterCheck(res)
          /\ wins' = WinsAfterCheck(res, l.now, interval_seconds)
    /\ UNCHANGED <<clock, ticks, config, metrics, closed, cleaner>>

(* SlidingWindow.reset: the interval is the one of the options, else the
   limiter's, else a minute *)
SwResetSeconds(o) ==
    get_interval_in_seconds(
        OptGet(o, "interval", OptGet(policy, "interval", "minute")))

SwResetCurrent(p) ==
    /\ pc[p] = "swr_set_current"
    /\ LET l == [loc[p] EXCEPT !.now = clock \div MsPerSecond]
           w == SwCurrentWindow(l.now, SwResetSeconds(l.opts))
           s == StorageSet(SwKey(l.id, w), IntStr(0), 0)
       IN /\ data' = s.d
          /\ expirations' = s.e
          /\ loc' = [loc EXCEPT ![p] = l]
    /\ pc' = [pc EXCEPT ![p] = "swr_set_previous"]
    /\ UNCHANGED <<clock, ticks, config, metrics, closed, cleaner, result, hist, wins>>

SwResetPrevious(p) ==
    /\ pc[p] = "swr_set_previous"
    /\ LET l == loc[p]
           w == SwPreviousWindow(l.now, SwResetSeconds(l.opts))
           s == StorageSet(SwKey(l.id, w), IntStr(0), 0)
       IN /\ data' = s.d
          /\ expirations' = s.e
          /\ hist' = HistAfterReset(l, result[p])
          /\ wins' = [w |-> SwCurrentWindow(l.now, SwResetSeconds(l.opts)),
                      cur |-> 0, prev |-> 0]
    /\ Return(p, Done)
    /\ UNCHANGED <<clock, ticks, config, metrics, closed, cleaner>>

----------------------------------------------------------------------------
(* Requests.  A string is the sequence of its segments between colons, so
   that f"{a}:{b}" is a \o b.  A request has the attributes the code looks
   for: client.host (FastAPI), remote_addr (Flask), user.id, path, and the
   headers x-forwarded-for (the sequence of its comma-separated entries),
   x-real-ip and x-api-key.  Absent stands for the None of an attribute or
   header that is missing; the empty string is <<"">>. *)

Absent == <<>>
Truthy(x) == x # Absent /\ x # <<"">>

HeaderGet(headers, name, default) ==
    IF name \in DOMAIN headers THEN headers[name] ELSE default

(* utils.normalize_client_info: the fields get_client_identifier and check read *)
normalize_client_info(request) ==
    LET headers == request.headers
        forwarded == HeaderGet(headers, "x-forwarded-for",
                               HeaderGet(headers, "x-real-ip", <<<<"unknown">>>>))
        ip == IF request.client_host # Absent
              THEN request.client_host
              ELSE IF Truthy(request.remote_addr)
                   THEN request.remote_addr
                   ELSE Head(forwarded)        \* ip.split(',')[0].strip()
    IN [ip |-> ip,
        user_id |-> request.user_id,
        api_key |-> HeaderGet(headers, "x-api-key", Absent),
        path |-> request.path]

(* Variant: the API key is looked at before the user id *)
get_client_identifier_key_first(request) ==
    LET client_info == normalize_client_info(request)
    IN IF Truthy(client_info.api_key)
       THEN <<"apikey">> \o client_info.api_key
       ELSE IF Truthy(client_info.user_id) /\ client_identifier = "user_id"
            THEN <<"user">> \o client_info.user_id
            ELSE <<"ip">> \o client_info.ip

(* RateLimiter.get_client_identifier *)
get_client_identifier(request) ==
    LET client_info == normalize_client_info(request)
    IN IF Truthy(client_info.user_id) /\ client_identifier = "user_id"
       THEN <<"user">> \o client_info.user_id
       ELSE IF Truthy(client_info.api_key)
            THEN <<"apikey">> \o client_info.api_key
            ELSE <<"ip">> \o client_info.ip

(* Variant: an override is selected by the longest route prefix; routes are
   sequences of path segments *)
IsPrefix(a, b) == Len(a) <= Len(b) /\ SubSeq(b, 1, Len(a)) = a

EffectiveOptionsByPrefix(path) ==
    LET matching == {r \in DOMAIN endpoint_overrides : IsPrefix(r, path)}
    IN IF matching = {}
       THEN policy
       ELSE endpoint_overrides[CHOOSE r \in matching :
                                  \A q \in matching : Len(q) <= Len(r)]

(* RateLimiter.check: effective_options =
   endpoint_overrides.get(path, options or self.options), for a call without
   options *)
EffectiveOptions(path) ==
    IF path \in DOMAIN endpoint_overrides THEN endpoint_overrides[path] ELSE policy

----------------------------------------------------------------------------
(* The callers *)

(* RateLimiter.check: the algorithm is the limiter's, whatever the options *)
CheckAlgorithm == IF algorithm = "sliding_window" THEN "sliding_window" ELSE "token_bucket"

FirstStep(op, alg) ==
    CASE op = "check" /\ alg = "token_bucket" -> "tb_get_tokens"
      [] op = "check" /\ alg = "sliding_window" -> "sw_get_current"
      [] op = "reset" /\ alg = "token_bucket" -> "tbr_set_tokens"
      [] op = "reset" /\ alg = "sliding_window" -> "swr_set_current"
      [] op = "incr" -> "incr"

Start(p, op, alg, opts) ==
    /\ pc' = [pc EXCEPT ![p] = FirstStep(op, alg)]
    /\ loc' = [loc EXCEPT ![p] = NewLoc(op, alg, opts, Ident)]

(* A request arrives: check(identifier, options) of the limiter's algorithm *)
BeginCheck(p) ==
    /\ pc[p] = "idle"
    /\ Start(p, "check", CheckAlgorithm, policy)
    /\ UNCHANGED <<clock, ticks, config, metrics, closed, cleaner, store, result, hist, wins>>

(* RateLimiter.reset(identifier, options): the algorithm the options name, else
   the limiter's *)
ResetAlgorithm(opts) == OptGet(opts, "algorithm", algorithm)

(* The options of a reset: any rate, the interval of the policy, and the
   algorithm either left out or named *)
ResetOptions ==
    {[rate |-> r, interval |-> policy.interval] : r \in Rates}
      \cup {[rate |-> policy.rate, interval |-> policy.interval,
             algorithm |-> algorithm]}

BeginReset(p) ==
    /\ pc[p] = "idle"
    /\ \E opts \in ResetOptions : Start(p, "reset", ResetAlgorithm(opts), opts)
    /\ UNCHANGED <<clock, ticks, config, metrics, closed, cleaner, store, result, hist, wins>>

(* The caller of the checks and resets made one after another *)
Caller == CHOOSE p \in Procs : TRUE

(* Time passes while no call is in progress, by half an interval of the policy
   at a time *)
TickSteps ==
    LET interval_ms == MsPerSecond * OptSeconds(policy)
    IN {interval_ms \div 2}

Tick ==
    /\ ticks < MaxTicks
    /\ \A p \in Procs : pc[p] = "idle"
    /\ \E d \in TickSteps :
         /\ clock' = clock + d
         /\ hist' = HistAfterTick(d, result[Caller])
    /\ ticks' = ticks + 1
    /\ UNCHANGED <<config, store, pc, loc, result, wins, metrics, closed, cleaner>>

(* MemoryStorage's clean_expired_keys, one pass of its loop up to the sleep *)
CleanExpiredKeys ==
    /\ storageType = "memory"
    /\ cleaner = "sweep"
    /\ LET expired_keys == {k \in DOMAIN expirations : expirations[k] <= clock}
       IN /\ expired_keys \subseteq DOMAIN data
          /\ data' = [k \in (DOMAIN data) \ expired_keys |-> data[k]]
          /\ expirations' = [k \in (DOMAIN expirations) \ expired_keys |-> expirations[k]]
    /\ cleaner' = "sleep"
    /\ UNCHANGED <<clock, ticks, config, metrics, closed, pc, loc, result, hist, wins>>

(* await asyncio.sleep(1) returns and the loop "while True" goes round *)
CleanerSleeps ==
    /\ cleaner = "sleep"
    /\ cleaner' = "sweep"
    /\ UNCHANGED <<clock, ticks, config, metrics, closed, store, pc, loc, result,
                   hist, wins>>

CheckStep(p) ==
    \/ TbGetTokens(p) \/ TbGetLast(p) \/ TbSetTokens(p) \/ TbSetLast(p)
    \/ SwGetCurrent(p) \/ SwGetPrevious(p) \/ Incr(p) \/ IncrSet(p) \/ SwExpire(p)

ResetStep(p) ==
    \/ TbResetTokens(p) \/ TbResetLast(p)
    \/ SwResetCurrent(p) \/ SwResetPrevious(p)

----------------------------------------------------------------------------
(* RateLimiter.check.  self.metrics[...] += 1 is a read and a write of the
   counter: callers on separate request threads (limiter.flask_middleware) can
   run between the two. *)

MaxRequests == 2

(* The requests made to the limiter *)
RequestOf(api_key, path) ==
    [client_host |-> <<"10.0.0.1">>, remote_addr |-> Absent, user_id |-> Absent,
     headers |-> [x \in {"x-api-key"} |-> api_key], path |-> path]

Requests ==
    {RequestOf(<<"k">>, <<>>), RequestOf(<<"k", "last">>, <<>>),
     RequestOf(<<"k">>, <<"api">>), RequestOf(<<"k">>, <<"api", "x">>)}

(* check is called: the read of self.metrics['requests_total'] *)
RLCheckBegin(p) ==
    /\ pc[p] = "idle"
    /\ hist.started < MaxRequests
    /\ \E request \in Requests :
         loc' = [loc EXCEPT ![p] =
                   [NewLoc("rl_check", CheckAlgorithm, policy, <<>>)
                      EXCEPT !.request = request, !.m = metrics.requests_total]]
    /\ pc' = [pc EXCEPT ![p] = "rl_count"]
    /\ hist' = [hist EXCEPT !.started = @ + 1, !.failed = @ \ {p}]
    /\ UNCHANGED <<clock, ticks, config, store, result, wins, metrics, closed, cleaner>>

(* the write of requests_total, the identifier, the path, the effective
   options and the choice of the algorithm, up to its check's first storage call *)
RLCheckDispatch(p) ==
    /\ pc[p] = "rl_count"
    /\ LET l == loc[p]
           identifier == get_client_identifier(l.request)
           path == normalize_client_info(l.request).path
           effective_options == EffectiveOptions(path)
       IN /\ metrics' = [metrics EXCEPT !.requests_total = l.m + 1]
          /\ loc' = [loc EXCEPT ![p] =
                       [l EXCEPT !.id = identifier, !.opts = effective_options,
                                 !.alg = CheckAlgorithm]]
          /\ pc' = [pc EXCEPT ![p] = FirstStep("check", CheckAlgorithm)]
    /\ UNCHANGED <<clock, ticks, config, store, result, hist, wins, closed, cleaner>>

(* if not result['allowed']: the read of self.metrics['throttled_total'];
   else return result *)
RLResult(p) ==
    /\ pc[p] = "rl_result"
    /\ IF loc[p].result.allowed
       THEN /\ Finish(p, loc[p].result)
            /\ UNCHANGED hist
       ELSE /\ loc' = [loc EXCEPT ![p] = [@ EXCEPT !.m = metrics.throttled_total]]
            /\ pc' = [pc EXCEPT ![p] = "rl_throttled"]
            /\ UNCHANGED <<result, hist>>
    /\ UNCHANGED <<clock, ticks, config, store, wins, metrics, closed, cleaner>>

(* the write of throttled_total, and return result *)
RLThrottled(p) ==
    /\ pc[p] = "rl_throttled"
    /\ metrics' = [metrics EXCEPT !.throttled_total = loc[p].m + 1]
    /\ Finish(p, loc[p].result)
    /\ hist' = [hist EXCEPT !.denied = @ + 1]
    /\ UNCHANGED <<clock, ticks, config, store, wins, closed, cleaner>>

(* A call to the Redis server fails: aioredis raises ConnectionError out of
   RedisStorage's method, and nothing between it and the caller of check
   catches it *)
StorageCalls ==
    {"tb_get_tokens", "tb_get_last", "tb_set_tokens", "tb_set_last",
     "sw_get_current", "sw_get_previous", "incr", "sw_expire"}

(* Variant: a failed storage call is answered with "allowed" *)
PropagateFailOpen(p, what) == Return(p, Decision(TRUE, 0, 0, 0, 0))

(* The exception leaves the storage method, the algorithm's check and
   RateLimiter.check: none of them has an except clause *)
Propagate(p, what) == Return(p, Raised(what))

StorageFails(p) ==
    /\ storageType = "redis"
    /\ pc[p] \in StorageCalls
    /\ Propagate(p, "ConnectionError")
    /\ hist' = [hist EXCEPT !.failed = @ \cup {p}]
    /\ UNCHANGED <<clock, ticks, config, store, wins, metrics, closed, cleaner>>

(* The task that runs check is cancelled while it waits for the answer of the
   Redis server: CancelledError is raised at that await and leaves check, the
   calls check has not yet made are never made.  MemoryStorage's methods never
   suspend, so a check on it is not interrupted *)
Abandon(p) ==
    /\ storageType = "redis"
    /\ pc[p] \in StorageCalls
    /\ Propagate(p, "CancelledError")
    /\ UNCHANGED <<clock, ticks, config, store, hist, wins, metrics, closed, cleaner>>

RLStep(p) == RLCheckDispatch(p) \/ RLResult(p) \/ RLThrottled(p)

----------------------------------------------------------------------------
(* Concurrent checks: NumProcs callers check one fresh identity at the same
   instant under one policy; their storage calls interleave in every order. *)

Policies == {[rate |-> r, interval |-> i] : r \in Rates, i \in Intervals}

InitConfig ==
    /\ storageType \in StorageTypes
    /\ algorithm \in Algorithms
    /\ policy \in Policies

InitStore ==
    /\ data = Empty
    /\ expirations = Empty

(* RateLimiter.__init__ and MemoryStorage.__init__: the counters at zero, the
   cleaner task scheduled, no connection to Redis yet *)
NoMetrics == [requests_total |-> 0, throttled_total |-> 0]

(* RedisStorage.__init__: self.redis = None, self.connected = False.
   redis = 0 stands for None; created counts the clients made since the last
   close, made all of them, cycles the closes *)
NotConnected == [connected |-> FALSE, redis |-> 0, created |-> 0, made |-> 0, cycles |-> 0]

InitLimiter ==
    /\ metrics = NoMetrics
    /\ closed = FALSE
    /\ cleaner = IF storageType = "memory" THEN "sweep" ELSE "none"
    /\ connection = NotConnected

(* A limiter without route overrides that identifies clients by IP *)
InitPlain ==
    /\ endpoint_overrides = Empty
    /\ client_identifier = "ip"
    /\ InitLimiter

ConcInit ==
    /\ clock = 0
    /\ ticks = 0
    /\ InitConfig
    /\ InitPlain
    /\ InitStore
    /\ pc = [p \in Procs |-> FirstStep("check", CheckAlgorithm)]
    /\ loc = [p \in Procs |-> NewLoc("check", CheckAlgorithm, policy, Ident)]
    /\ result = [p \in Procs |-> NoResult]
    /\ hist = FreshHist
    /\ wins = NoWins

ConcNext == \E p \in Procs : CheckStep(p)

ConcSpec == ConcInit /\ [][ConcNext]_vars

----------------------------------------------------------------------------
(* Concurrent increments: NumProcs users of the storage call incr on one key
   that is absent or holds an integer.  MemoryStorage takes no lock and the
   limiter is also driven from one thread per request (limiter.flask_middleware
   runs check on the event loop of the request's thread), so that another
   caller can run between the get and the set of MemoryStorage.incr. *)

MaxStart == 2
IncrKey == <<"k">>

IncrInit ==
    /\ clock = 0
    /\ ticks = 0
    /\ InitConfig
    /\ InitPlain
    /\ \/ InitStore /\ hist = FreshHist
       \/ \E v \in 0..MaxStart :
            /\ data = Put(Empty, IncrKey, IntStr(v))
            /\ expirations = Empty
            /\ hist = [FreshHist EXCEPT !.base = v]
    /\ pc = [p \in Procs |-> "incr"]
    /\ loc = [p \in Procs |->
                [NewLoc("incr", algorithm, policy, Ident) EXCEPT !.key = IncrKey]]
    /\ result = [p \in Procs |-> NoResult]
    /\ wins = NoWins

IncrNext == \E p \in Procs : Incr(p) \/ IncrSet(p)

IncrSpec == IncrInit /\ [][IncrNext]_vars

----------------------------------------------------------------------------
(* Checks and resets made one after another while time passes *)

Init ==
    /\ clock = 0
    /\ ticks = 0
    /\ InitConfig
    /\ InitPlain
    /\ InitStore
    /\ pc = [p \in Procs |-> "idle"]
    /\ loc = [p \in Procs |-> NoLoc]
    /\ result = [p \in Procs |-> NoResult]
    /\ hist = FreshHist
    /\ wins = NoWins

Next ==
    \/ BeginCheck(Caller)
    \/ BeginReset(Caller)
    \/ CheckStep(Caller)
    \/ ResetStep(Caller)
    \/ Tick
    \/ CleanExpiredKeys
    \/ CleanerSleeps

Spec == Init /\ [][Next]_vars

----------------------------------------------------------------------------
(* Requests through RateLimiter.check: two callers make up to MaxRequests
   checks between them, for two API keys and three routes, under the default
   policy and at most one route override; a call to the Redis server may
   fail. *)

OtherAlgorithm(a) == IF a = "token_bucket" THEN "sliding_window" ELSE "token_bucket"

DefaultPolicies == {[rate |-> 2, interval |-> "second"]}

OverrideEntries ==
    {[rate |-> 1], [interval |-> "minute"]}
      \cup {[rate |-> 1, interval |-> "second", algorithm |-> a] : a \in Algorithms}

OverrideMaps ==
    {Empty} \cup {[r \in {<<"api">>} |-> o] : o \in OverrideEntries}

RLCallers == {p \in Procs : p <= 2}

ReqInit ==
    /\ clock = MsPerSecond
    /\ ticks = 0
    /\ storageType \in StorageTypes
    /\ algorithm \in Algorithms
    /\ policy \in DefaultPolicies
    /\ endpoint_overrides \in OverrideMaps
    /\ client_identifier = "ip"
    /\ InitLimiter
    /\ InitStore
    /\ pc = [p \in Procs |-> "idle"]
    /\ loc = [p \in Procs |-> NoLoc]
    /\ result = [p \in Procs |-> NoResult]
    /\ hist = FreshHist
    /\ wins = NoWins

ReqNext ==
    \E p \in RLCallers :
        \/ RLCheckBegin(p)
        \/ RLStep(p)
        \/ CheckStep(p)
        \/ StorageFails(p)

ReqSpec == ReqInit /\ [][ReqNext]_vars

----------------------------------------------------------------------------
(* Identity resolution: get_client_identifier applied to every request made
   of a peer address (none, FastAPI's client.host or Flask's remote_addr), a
   forwarded-for chain, an x-real-ip header, an API key and a user id, each
   present or not. *)

Chains == {<<<<"1.2.3.4">>>>, <<<<"1.2.3.4">>, <<"5.6.7.8">>>>}

HeadersOf(forwarded_for, real_ip, api_key) ==
    LET all == [name \in {"x-forwarded-for", "x-real-ip", "x-api-key"} |->
                  CASE name = "x-forwarded-for" -> forwarded_for
                    [] name = "x-real-ip" -> real_ip
                    [] OTHER -> api_key]
    IN [name \in {n \in DOMAIN all : all[n] # Absent} |-> all[name]]

AllRequests ==
    {[client_host |-> peer[1], remote_addr |-> peer[2], user_id |-> user_id,
      headers |-> HeadersOf(forwarded_for, real_ip, api_key), path |-> <<>>] :
        peer \in {<<Absent, Absent>>, <<<<"10.0.0.1">>, Absent>>,
                  <<Absent, <<"10.0.0.1">>>>},
        user_id \in {Absent, <<"u1">>},
        forwarded_for \in {Absent} \cup Chains,
        real_ip \in {Absent, <<<<"9.9.9.9">>>>},
        api_key \in {Absent, <<"k">>}}

(* identifier = self.get_client_identifier(request) *)
ResolveIdentity(p) ==
    /\ pc[p] = "idle"
    /\ \E request \in AllRequests :
         result' = [result EXCEPT ![p] =
                      [kind |-> "identifier", request |-> request,
                       value |-> get_client_identifier(request)]]
    /\ UNCHANGED <<clock, ticks, config, metrics, closed, cleaner, store, pc, loc,
                   hist, wins>>

IdentInit ==
    /\ clock = 0
    /\ ticks = 0
    /\ InitConfig
    /\ endpoint_overrides = Empty
    /\ client_identifier \in {"ip", "user_id"}
    /\ InitLimiter
    /\ InitStore
    /\ pc = [p \in Procs |-> "idle"]
    /\ loc = [p \in Procs |-> NoLoc]
    /\ result = [p \in Procs |-> NoResult]
    /\ hist = FreshHist
    /\ wins = NoWins

IdentNext == ResolveIdentity(Caller)

IdentSpec == IdentInit /\ [][IdentNext]_vars

----------------------------------------------------------------------------
(* Checks of one identity made one after another at one instant, with a rate
   that may be zero or negative, against a store in which one of the identity's
   keys may hold a string that is not the number the algorithm parses. *)

AnyRates == {-1, 0} \cup Rates

EdgeKeys ==
    {TbKey(Ident), TbLastKey(Ident)}
      \cup {SwKey(Ident, w) : w \in {0, -get_interval_in_seconds(policy.interval)}}

EdgeInit ==
    /\ clock = 0
    /\ ticks = 0
    /\ storageType \in StorageTypes
    /\ algorithm \in Algorithms
    /\ policy \in {[rate |-> r, interval |-> i] : r \in AnyRates, i \in Intervals}
    /\ InitPlain
    /\ expirations = Empty
    /\ \/ data = Empty
       \/ \E k \in EdgeKeys, v \in {BadStr, FloatStr(TokScale \div 2)} :
            /\ v = BadStr \/ k # TbKey(Ident)
            /\ data = Put(Empty, k, v)
    /\ pc = [p \in Procs |-> "idle"]
    /\ loc = [p \in Procs |-> NoLoc]
    /\ result = [p \in Procs |-> NoResult]
    /\ hist = [FreshHist EXCEPT !.start = IF data = Empty THEN "fresh" ELSE "malformed"]
    /\ wins = NoWins

EdgeNext == BeginCheck(Caller) \/ CheckStep(Caller)

EdgeSpec == EdgeInit /\ [][EdgeNext]_vars

----------------------------------------------------------------------------
(* Shutdown of a MemoryStorage: checks are made one after another while time
   passes and the cleaner task sweeps; close() is called at some point.  The
   event loop keeps running the cleaner's task: a sweep that is due is made
   and a sleep that was begun ends. *)

(* MemoryStorage.close: a no-op *)
Close ==
    /\ ~closed
    /\ \A p \in Procs : pc[p] = "idle"
    /\ closed' = TRUE
    /\ UNCHANGED <<clock, ticks, config, metrics, cleaner, store, pc, loc, result,
                   hist, wins>>

CloseInit ==
    /\ Init
    /\ storageType = "memory"

CloseNext ==
    \/ BeginCheck(Caller)
    \/ CheckStep(Caller)
    \/ Tick
    \/ CleanExpiredKeys
    \/ CleanerSleeps
    \/ Close

CloseSpec ==
    /\ CloseInit
    /\ [][CloseNext]_vars
    /\ WF_vars(CleanExpiredKeys)
    /\ WF_vars(CleanerSleeps)

----------------------------------------------------------------------------
(* A user of the storage calls get, set, incr, expire and delete on one key,
   one call after another, while time passes and the cleaner sweeps. *)

Values == {IntStr(v) : v \in 0..MaxStart} \cup {BadStr}
SetTtls == {0, 1, 2}
ExpireTtls == {1, 2}

(* What the storage holds for key at time t *)
KeyState(key, t) ==
    [in_data |-> key \in DOMAIN data,
     value |-> IF key \in DOMAIN data THEN data[key] ELSE None,
     in_expirations |-> key \in DOMAIN expirations,
     expires_at |-> IF key \in DOMAIN expirations THEN expirations[key] ELSE -1,
     at |-> t]

Wrote(op, value, ttl) ==
    [hist EXCEPT !.last_write = [op |-> op, value |-> value, ttl |-> ttl, at |-> clock],
                 !.before = KeyState(IncrKey, clock)]

StoreGet(p) ==
    /\ pc[p] = "idle"
    /\ LET g == StorageGet(IncrKey)
       IN /\ data' = g.d
          /\ expirations' = g.e
          /\ result' = [result EXCEPT ![p] =
                          [kind |-> "get", value |-> g.ret, at |-> clock]]
    /\ UNCHANGED <<clock, ticks, config, metrics, closed, cleaner, pc, loc, hist, wins>>

StoreSet(p) ==
    /\ pc[p] = "idle"
    /\ \E value \in Values, ttl \in SetTtls :
         LET s == StorageSet(IncrKey, value, ttl)
         IN /\ data' = s.d
            /\ expirations' = s.e
            /\ result' = [result EXCEPT ![p] =
                            [kind |-> "set", value |-> s.ret, at |-> clock]]
            /\ hist' = Wrote("set", value, ttl)
    /\ UNCHANGED <<clock, ticks, config, metrics, closed, cleaner, pc, loc, wins>>

StoreExpire(p) ==
    /\ pc[p] = "idle"
    /\ \E ttl \in ExpireTtls :
         LET x == StorageExpire(IncrKey, ttl)
         IN /\ data' = x.d
            /\ expirations' = x.e
            /\ result' = [result EXCEPT ![p] =
                            [kind |-> "expire", value |-> x.ret, at |-> clock]]
            /\ hist' = Wrote("expire", None, ttl)
    /\ UNCHANGED <<clock, ticks, config, metrics, closed, cleaner, pc, loc, wins>>

StoreDelete(p) ==
    /\ pc[p] = "idle"
    /\ LET x == StorageDelete(IncrKey)
       IN /\ data' = x.d
          /\ expirations' = x.e
          /\ result' = [result EXCEPT ![p] =
                          [kind |-> "delete", value |-> x.ret, at |-> clock]]
          /\ hist' = Wrote("delete", None, 0)
    /\ UNCHANGED <<clock, ticks, config, metrics, closed, cleaner, pc, loc, wins>>

(* incr is called; Incr and IncrSet are its steps.  The counter is followed up
   to MaxStart + 1 *)
StoreIncr(p) ==
    /\ pc[p] = "idle"
    /\ (IncrKey \in DOMAIN data /\ IntParses(data[IncrKey]))
           => IntOf(data[IncrKey]) <= MaxStart
    /\ pc' = [pc EXCEPT ![p] = FirstStep("incr", algorithm)]
    /\ loc' = [loc EXCEPT ![p] =
                 [NewLoc("incr", algorithm, policy, Ident) EXCEPT !.key = IncrKey]]
    /\ hist' = Wrote("incr", None, 0)
    /\ UNCHANGED <<clock, ticks, config, metrics, closed, cleaner, store, result, wins>>

StoreInit ==
    /\ clock = 0
    /\ ticks = 0
    /\ storageType \in StorageTypes
    /\ algorithm = "token_bucket"
    /\ policy = [rate |-> 1, interval |-> "second"]
    /\ InitPlain
    /\ InitStore
    /\ pc = [p \in Procs |-> "idle"]
    /\ loc = [p \in Procs |-> NoLoc]
    /\ result = [p \in Procs |-> NoResult]
    /\ hist = FreshHist
    /\ wins = NoWins

StoreNext ==
    \/ StoreGet(Caller)
    \/ StoreSet(Caller)
    \/ StoreExpire(Caller)
    \/ StoreDelete(Caller)
    \/ StoreIncr(Caller)
    \/ Incr(Caller)
    \/ IncrSet(Caller)
    \/ Tick
    \/ CleanExpiredKeys
    \/ CleanerSleeps

StoreSpec == StoreInit /\ [][StoreNext]_vars

----------------------------------------------------------------------------
(* Checks of one caller, any of which may be abandoned at a storage call *)

AbandonInit == Init

AbandonNext ==
    \/ BeginCheck(Caller)
    \/ CheckStep(Caller)
    \/ Abandon(Caller)
    \/ Tick
    \/ CleanExpiredKeys
    \/ CleanerSleeps

AbandonSpec == AbandonInit /\ [][AbandonNext]_vars

----------------------------------------------------------------------------
(* Token-bucket checks of one caller under one policy, with no reset.  The
   checks allowed are counted from a time drawn at the start *)

SpanStarts ==
    {k * ((MsPerSecond * OptSeconds(policy)) \div 2) : k \in 0..MaxTicks}

SpanInit ==
    /\ clock = 0
    /\ ticks = 0
    /\ InitConfig
    /\ algorithm = "token_bucket"
    /\ InitPlain
    /\ InitStore
    /\ pc = [p \in Procs |-> "idle"]
    /\ loc = [p \in Procs |-> NoLoc]
    /\ result = [p \in Procs |-> NoResult]
    /\ \E m \in SpanStarts : hist = [FreshHist EXCEPT !.mark = m]
    /\ wins = NoWins

SpanNext ==
    \/ BeginCheck(Caller)
    \/ TbGetTokens(Caller)
    \/ TbGetLast(Caller)
    \/ TbSetTokens(Caller)
    \/ TbSetLast(Caller)
    \/ Tick
    \/ CleanExpiredKeys
    \/ CleanerSleeps

SpanSpec == SpanInit /\ [][SpanNext]_vars

----------------------------------------------------------------------------
(* RedisStorage: operations started by several callers while the storage    *)
(* connects.  Every method begins "if not self.connected: await             *)
(* self.connect()", and connect is "if self.connected: return", then        *)
(* "self.redis = await aioredis.from_url(...)", then "self.connected = True" *)

MaxCycles == 2

ConnUnchanged ==
    UNCHANGED <<clock, ticks, storageType, algorithm, policy, endpoint_overrides,
                client_identifier, metrics, closed, cleaner, store, hist, wins>>

(* aioredis.from_url has returned a new client: self.redis = client,
   self.connected = True, and the method goes on to call self.redis *)
Connected(p) ==
    /\ connection' = [connection EXCEPT !.connected = TRUE,
                                        !.redis = connection.made + 1,
                                        !.made = @ + 1,
                                        !.created = @ + 1]
    /\ pc' = [pc EXCEPT ![p] = "redis_call"]
    /\ loc' = [loc EXCEPT ![p] = [op |-> "redis_op", client |-> connection.made + 1]]

(* A method is called.  Connected, it calls self.redis; not connected, it
   enters connect, finds connected false there too, and waits at
   "await aioredis.from_url(...)" *)
RedisOpBegin(p) ==
    /\ pc[p] = "idle"
    /\ IF connection.connected
       THEN /\ pc' = [pc EXCEPT ![p] = "redis_call"]
            /\ loc' = [loc EXCEPT ![p] = [op |-> "redis_op", client |-> connection.redis]]
       ELSE /\ pc' = [pc EXCEPT ![p] = "from_url"]
            /\ loc' = [loc EXCEPT ![p] = [op |-> "redis_op", client |-> 0]]
    /\ UNCHANGED connection
    /\ UNCHANGED result
    /\ ConnUnchanged

(* The await of aioredis.from_url returns to a caller that waited *)
FromUrl(p) ==
    /\ pc[p] = "from_url"
    /\ Connected(p)
    /\ UNCHANGED result
    /\ ConnUnchanged

(* The call on the client returns *)
RedisCall(p) ==
    /\ pc[p] = "redis_call"
    /\ Finish(p, [kind |-> "client", value |-> loc[p].client])
    /\ UNCHANGED connection
    /\ ConnUnchanged

(* RedisStorage.close, called when no operation is running *)
RedisClose ==
    /\ \A p \in Procs : pc[p] = "idle"
    /\ connection.connected /\ connection.redis # 0
    /\ connection.cycles < MaxCycles
    /\ connection' = [connection EXCEPT !.connected = FALSE, !.created = 0,
                                        !.cycles = @ + 1]
    /\ UNCHANGED <<pc, loc, result>>
    /\ ConnUnchanged

ConnInit ==
    /\ clock = 0
    /\ ticks = 0
    /\ storageType = "redis"
    /\ algorithm = "token_bucket"
    /\ policy = [rate |-> 1, interval |-> "second"]
    /\ InitPlain
    /\ InitStore
    /\ pc = [p \in Procs |-> "idle"]
    /\ loc = [p \in Procs |-> NoLoc]
    /\ result = [p \in Procs |-> NoResult]
    /\ hist = FreshHist
    /\ wins = NoWins

ConnNext ==
    \/ \E p \in Procs : RedisOpBegin(p) \/ FromUrl(p) \/ RedisCall(p)
    \/ RedisClose

ConnSpec == ConnInit /\ [][ConnNext]_vars

----------------------------------------------------------------------------
(* Statements about concurrent checks (ConcSpec) *)

AllReturned == \A p \in Procs : pc[p] = "idle"
AllowedCalls == {p \in Procs : IsDecision(result[p]) /\ result[p].allowed}
DeniedCalls == {p \in Procs : IsDecision(result[p]) /\ ~result[p].allowed}

(* C1: token bucket, NumProcs concurrent checks of a fresh identity at one
   instant with rate < NumProcs: exactly rate of them are allowed and the
   others denied, in every interleaving of their storage calls. *)
C1_TokenBucketExactlyRate ==
    (algorithm = "token_bucket" /\ policy.rate < NumProcs /\ AllReturned)
        => (/\ Cardinality(AllowedCalls) = policy.rate
            /\ Cardinality(DeniedCalls) = NumProcs - policy.rate)

(* C2: sliding window, NumProcs concurrent checks of a fresh identity in one
   window with rate < NumProcs: exactly rate of them are allowed and the others
   denied, in every interleaving of their storage calls. *)
C2_SlidingWindowExactlyRate ==
    (algorithm = "sliding_window" /\ policy.rate < NumProcs /\ AllReturned)
        => (/\ Cardinality(AllowedCalls) = policy.rate
            /\ Cardinality(DeniedCalls) = NumProcs - policy.rate)

(* C3: NumProcs concurrent checks of a fresh identity with rate >= NumProcs
   are all allowed and the stored state accounts for all of them: the current
   window's counter is NumProcs, the bucket holds rate - NumProcs tokens. *)
StoredCount ==
    LET k == SwKey(Ident, SwCurrentWindow(clock \div MsPerSecond, OptSeconds(policy)))
    IN IF k \in DOMAIN data /\ IntParses(data[k]) THEN IntOf(data[k]) ELSE 0

StoredTokens ==
    IF TbKey(Ident) \in DOMAIN data /\ FloatParses(data[TbKey(Ident)])
    THEN FloatOf(data[TbKey(Ident)])
    ELSE OptRate(policy) * TokScale

C3_NoLostUpdates ==
    (policy.rate >= NumProcs /\ AllReturned)
        => (/\ Cardinality(AllowedCalls) = NumProcs
            /\ algorithm = "sliding_window" => StoredCount = NumProcs
            /\ algorithm = "token_bucket"
                 => StoredTokens = (policy.rate - NumProcs) * TokScale)

----------------------------------------------------------------------------
(* Statements about concurrent increments (IncrSpec) *)

(* C4: incr is linearizable: NumProcs concurrent incr calls on one key that is
   absent (base 0) or holds the integer base leave base + NumProcs stored and
   return pairwise different values. *)
C4_IncrLinearizable ==
    AllReturned
        => (/\ IncrKey \in DOMAIN data
            /\ data[IncrKey] = IntStr(hist.base + NumProcs)
            /\ \A p, q \in Procs : p # q => result[p] # result[q])

----------------------------------------------------------------------------
(* Statements about checks and resets made one after another (Spec) *)

Last == result[Caller]

(* The last value returned is that of the hist.n-th check of the current run *)
InRun == hist.n >= 1 /\ hist.n < RunCap /\ IsDecision(Last)

IntervalMs == MsPerSecond * OptSeconds(policy)

(* C5: checks made one after another on a fresh identity with no time passing:
   the i-th is allowed if and only if i <= rate, for both algorithms. *)
C5_SequentialQuota ==
    (InRun /\ hist.start = "fresh") => (Last.allowed <=> hist.n <= policy.rate)

C5_Witness ==
    /\ InRun
    /\ hist.start = "fresh"
    /\ policy.rate = MaxRate
    /\ hist.n = policy.rate + 1
    /\ ~Last.allowed

(* C6: sliding window: once rate checks were allowed in window W, every check
   at the first instant of window W+1 is denied, and the checks allowed in W
   and at the first instant of W+1 never add up to 2 * rate. *)
AtWindowStart ==
    LET now == clock \div MsPerSecond
    IN /\ now % OptSeconds(policy) = 0
       /\ wins.w = SwCurrentWindow(now, OptSeconds(policy))

C6_WindowBoundary ==
    (algorithm = "sliding_window" /\ InRun /\ AtWindowStart)
        => (/\ wins.prev >= policy.rate => ~Last.allowed
            /\ wins.prev + wins.cur < 2 * policy.rate)

C6_Witness ==
    /\ algorithm = "sliding_window"
    /\ policy.interval = "minute"
    /\ InRun
    /\ AtWindowStart
    /\ policy.rate > 1
    /\ wins.prev = policy.rate
    /\ ~Last.allowed

(* C7: token bucket: after interval_seconds without a call, whatever the bucket
   held, the next rate checks made with no time passing are all allowed and the
   one after them is denied. *)
C7_FullRefill ==
    (algorithm = "token_bucket" /\ InRun /\ hist.idle >= IntervalMs)
        => (Last.allowed <=> hist.n <= policy.rate)

C7_Witness ==
    /\ algorithm = "token_bucket"
    /\ InRun
    /\ hist.idle >= IntervalMs
    /\ hist.after_denied
    /\ policy.rate > 1
    /\ hist.n = policy.rate + 1
    /\ ~Last.allowed

(* C8: every Decision has retry_after = 0 when allowed and retry_after > 0
   when denied. *)
C8_RetryAfter ==
    IsDecision(Last)
        => (/\ Last.allowed => Last.retry_after = 0
            /\ ~Last.allowed => Last.retry_after > 0)

(* C9: every Decision of a check with rate >= 1 has 0 <= remaining <= rate,
   also after resets made with another rate. *)
C9_RemainingInRange ==
    IsDecision(Last) => (0 <= Last.remaining /\ Last.remaining <= policy.rate)

C9_Witness ==
    /\ InRun
    /\ hist.start = "reset"
    /\ hist.reset.opts.rate > policy.rate
    /\ Last.allowed
    /\ Last.remaining = policy.rate - 1

(* C10: reset(identity, policy) and then at once check(identity, policy) of the
   same algorithm, rate >= 1: the check is allowed, also when the quota was
   exhausted before the reset. *)
SamePolicy(o) == OptRate(o) = OptRate(policy) /\ OptSeconds(o) = OptSeconds(policy)

C10_ResetThenCheck ==
    (/\ InRun
     /\ hist.start = "reset"
     /\ hist.n = 1
     /\ hist.reset.alg = CheckAlgorithm
     /\ SamePolicy(hist.reset.opts))
        => Last.allowed

C10_Witness ==
    /\ InRun
    /\ hist.start = "reset"
    /\ hist.n = 1
    /\ hist.reset.alg = CheckAlgorithm
    /\ SamePolicy(hist.reset.opts)
    /\ hist.after_denied
    /\ Last.allowed

----------------------------------------------------------------------------
(* Statements about requests through RateLimiter.check (ReqSpec) *)

Identities == {get_client_identifier(r) : r \in Requests}

(* k is a key that a check or reset for the identity id reads or writes *)
IsKeyOf(k, id) ==
    \/ k = TbKey(id)
    \/ k = TbLastKey(id)
    \/ /\ Len(k) = Len(id) + 2
       /\ k[1] = "sw"
       /\ SubSeq(k, 2, Len(id) + 1) = id

SameAt(k) ==
    /\ (k \in DOMAIN data) = (k \in DOMAIN data')
    /\ k \in DOMAIN data => data'[k] = data[k]
    /\ (k \in DOMAIN expirations) = (k \in DOMAIN expirations')
    /\ k \in DOMAIN expirations => expirations'[k] = expirations[k]

(* C11: identities are isolated: no step of a check for one identity changes
   what is stored under a key of another identity. *)
C11_Isolation ==
    [][\A p \in Procs :
         (pc'[p] # pc[p] /\ loc[p].op = "rl_check")
            => \A id \in Identities \ {loc[p].id} :
                 \A k \in (DOMAIN data) \cup (DOMAIN data') :
                    IsKeyOf(k, id) => SameAt(k)]_vars

(* The steps in which a check of the algorithm alg reads or updates its state *)
StepsOf(alg) ==
    IF alg = "sliding_window"
    THEN {"sw_get_current", "sw_get_previous", "incr", "incr_set", "sw_expire"}
    ELSE {"tb_get_tokens", "tb_get_last", "tb_set_tokens", "tb_set_last"}

InAlgorithm(p) ==
    loc[p].op = "rl_check" /\ pc[p] \in StepsOf("sliding_window") \cup StepsOf("token_bucket")

(* C12: when the effective policy of a request names an algorithm, the check
   reads and updates the state of that algorithm, whatever the limiter's
   default algorithm is. *)
C12_DispatchByPolicy ==
    \A p \in Procs :
        (InAlgorithm(p) /\ "algorithm" \in DOMAIN loc[p].opts)
            => pc[p] \in StepsOf(loc[p].opts.algorithm)

(* The rate and the interval a request is to be checked with *)
ExpectedOptions(request) ==
    IF request.path \in DOMAIN endpoint_overrides
    THEN LET o == endpoint_overrides[request.path]
         IN [rate |-> IF "rate" \in DOMAIN o THEN o.rate ELSE DefaultRate,
             seconds |-> IF "interval" \in DOMAIN o
                         THEN get_interval_in_seconds(o.interval)
                         ELSE get_interval_in_seconds("minute")]
    ELSE [rate |-> policy.rate, seconds |-> get_interval_in_seconds(policy.interval)]

Dispatched(p) == loc[p].op = "rl_check" /\ pc[p] # "rl_count"
HasDecision(p) == loc[p].op = "rl_check" /\ pc[p] \in {"rl_result", "rl_throttled"}

(* C13: a request whose route is exactly a key of endpoint_overrides is checked
   with the rate and interval of that entry alone, a missing field taking the
   built-in default; every other request, also one whose route only begins
   with an overridden route, is checked with the default policy. *)
C13_PolicyResolution ==
    \A p \in Procs :
        /\ Dispatched(p)
             => /\ OptRate(loc[p].opts) = ExpectedOptions(loc[p].request).rate
                /\ OptSeconds(loc[p].opts) = ExpectedOptions(loc[p].request).seconds
        /\ HasDecision(p)
             => loc[p].result.limit = ExpectedOptions(loc[p].request).rate

C13_Witness ==
    \E p, q \in Procs :
        /\ HasDecision(p)
        /\ HasDecision(q)
        /\ loc[p].request.path = <<"api">>
        /\ endpoint_overrides = [r \in {<<"api">>} |-> [interval |-> "minute"]]
        /\ loc[p].result.limit = DefaultRate
        /\ loc[q].request.path = <<"api", "x">>
        /\ loc[q].result.limit = policy.rate

(* C16: whenever no check is in progress, requests_total is the number of
   calls of RateLimiter.check that were started, throttled_total the number of
   them that returned allowed = false, and throttled_total <= requests_total,
   in every interleaving of the callers. *)
C16_MetricsAccounting ==
    AllReturned
        => (/\ metrics.requests_total = hist.started
            /\ metrics.throttled_total = hist.denied
            /\ metrics.throttled_total <= metrics.requests_total)

(* C17: a check in which a storage call failed with a connectivity error has
   returned that error to its caller and no Decision, and throttled_total
   counts no more than the checks that returned allowed = false. *)
C17_StoreFailurePropagates ==
    /\ \A p \in hist.failed :
          /\ pc[p] = "idle"
          /\ result[p] = Raised("ConnectionError")
    /\ metrics.throttled_total <= hist.denied

C17_Witness ==
    \E p \in hist.failed :
        /\ result[p] = Raised("ConnectionError")
        /\ data # Empty
        /\ metrics.requests_total = hist.started
        /\ metrics.throttled_total = 0

----------------------------------------------------------------------------
(* Statements about identity resolution (IdentSpec) *)

Resolved == Last.kind = "identifier"

(* C14: the identity is that of the user id when the request has one and the
   limiter identifies by user, else that of the API key when the request has
   one, else that of the source IP; it is never the empty string. *)
C14_IdentityPriority ==
    Resolved =>
        LET r == Last.request
        IN /\ Last.value # <<>>
           /\ Last.value # <<"">>
           /\ IF r.user_id # Absent /\ client_identifier = "user_id"
              THEN Last.value = <<"user">> \o r.user_id
              ELSE IF "x-api-key" \in DOMAIN r.headers
                   THEN Last.value = <<"apikey">> \o r.headers["x-api-key"]
                   ELSE Head(Last.value) = "ip"

C14_Witness ==
    /\ Resolved
    /\ client_identifier = "user_id"
    /\ Last.request.user_id = <<"u1">>
    /\ "x-api-key" \in DOMAIN Last.request.headers
    /\ Last.value = <<"user", "u1">>

(* C15: an identity that falls back to the source IP uses the first entry of
   the forwarded-for chain whenever the request has a forwarded-for header,
   and the peer address only when it has none. *)
C15_ForwardedFirst ==
    (Resolved /\ Head(Last.value) = "ip")
        => LET r == Last.request
               peer == IF r.client_host # Absent THEN r.client_host ELSE r.remote_addr
           IN IF "x-forwarded-for" \in DOMAIN r.headers
              THEN Last.value = <<"ip">> \o Head(r.headers["x-forwarded-for"])
              ELSE peer # Absent => Last.value = <<"ip">> \o peer

----------------------------------------------------------------------------
(* Statements about malformed state and invalid policies (EdgeSpec) *)

Returned == Last # NoResult

(* C18: a check that finds a string that is not a parsable number under one of
   its keys does not fail: it returns a Decision, and the first such check is
   allowed, as for an identity without state. *)
C18_MalformedAsAbsent ==
    (Returned /\ policy.rate >= 1 /\ hist.start = "malformed")
        => (/\ IsDecision(Last)
            /\ hist.n = 1 => Last.allowed)

(* C19: a check with rate <= 0, of an identity without state, is rejected
   with InvalidPolicy. *)
C19_InvalidPolicy ==
    (Returned /\ policy.rate <= 0 /\ hist.start = "fresh")
        => Last = Raised("InvalidPolicy")

----------------------------------------------------------------------------
(* Statements about shutdown (CloseSpec) *)

(* C20: after close() of a MemoryStorage its cleaner task eventually
   terminates: it is neither sweeping nor sleeping until the next sweep. *)
CleanerAlive == cleaner \in {"sweep", "sleep"}

C20_ReclaimerStops == closed ~> ~CleanerAlive


----------------------------------------------------------------------------
(* Statements about the storage (StoreSpec) *)

LastWrite == hist.last_write
Before == hist.before

(* A get at the time the last call began would have returned the value *)
LiveBefore ==
    /\ Before.in_data
    /\ ~(Before.in_expirations /\ Before.expires_at <= Before.at)

(* A get now would return the value *)
LiveNow ==
    /\ IncrKey \in DOMAIN data
    /\ ~(IncrKey \in DOMAIN expirations /\ expirations[IncrKey] <= clock)

(* The user's last call was op and has returned *)
LastCall(op) == pc[Caller] = "idle" /\ LastWrite.op = op

(* C21: a get made ttl seconds or more after set(key, value, ttl), ttl >= 1,
   with no set, incr, expire or delete of the key in between, returns None,
   whether or not the cleaner has swept the key *)
C21_ExpiredIsAbsent ==
    (/\ Last.kind = "get"
     /\ LastCall("set")
     /\ LastWrite.ttl >= 1
     /\ Last.at >= LastWrite.at + LastWrite.ttl * MsPerSecond)
    => Last.value = None

(* The get found the expired key still in _data: no sweep had removed it *)
C21_Witness ==
    /\ storageType = "memory"
    /\ Last.kind = "get"
    /\ LastCall("set")
    /\ LastWrite.ttl >= 1
    /\ Last.at >= LastWrite.at + LastWrite.ttl * MsPerSecond
    /\ Last.value = None
    /\ cleaner = "sleep"
    /\ clock = Last.at
    /\ IncrKey \notin DOMAIN data

(* C22: incr of a key that is absent returns 1, incr of a key holding the
   integer v returns v + 1, and a get that follows returns the decimal string
   of the value returned *)
C22_IncrCounts ==
    (/\ Last.kind = "int"
     /\ LastCall("incr")
     /\ clock = LastWrite.at
     /\ LiveBefore => IntParses(Before.value))
    => /\ Last.value = IF LiveBefore THEN IntOf(Before.value) + 1 ELSE 1
       /\ StorageGet(IncrKey).ret = IntStr(Last.value)

C22_Witness ==
    /\ Last.kind = "int"
    /\ LastCall("incr")
    /\ clock = LastWrite.at
    /\ LiveBefore
    /\ IntParses(Before.value)
    /\ IntOf(Before.value) >= 1
    /\ Last.value = IntOf(Before.value) + 1
    /\ StorageGet(IncrKey).ret = IntStr(Last.value)

(* C23: expire(key, ttl) of a key that is absent returns 0 and leaves it
   absent; of a key that exists it returns 1, sets the expiry to now + ttl
   and leaves the value as it was *)
C23_ExpireContract ==
    (/\ Last.kind = "expire"
     /\ LastCall("expire")
     /\ clock = LastWrite.at)
    => IF LiveBefore
       THEN /\ Last.value = 1
            /\ IncrKey \in DOMAIN data
            /\ data[IncrKey] = Before.value
            /\ IncrKey \in DOMAIN expirations
            /\ expirations[IncrKey] = LastWrite.at + LastWrite.ttl * MsPerSecond
       ELSE /\ Last.value = 0
            /\ ~LiveNow

(* C24: after set(key, v, ttl) a get made before ttl seconds have passed
   returns v; after set(key, v) without ttl a get returns v however late it
   is made, whatever expiry the key had before *)
C24_SetOverwrites ==
    (/\ Last.kind = "get"
     /\ LastCall("set")
     /\ \/ LastWrite.ttl = 0
        \/ Last.at < LastWrite.at + LastWrite.ttl * MsPerSecond)
    => Last.value = LastWrite.value

(* A set without ttl replaced a value that had an expiry, and the get was made
   after that expiry *)
C24_Witness ==
    /\ Last.kind = "get"
    /\ LastCall("set")
    /\ LastWrite.ttl = 0
    /\ LiveBefore
    /\ Before.in_expirations
    /\ Before.value # LastWrite.value
    /\ Last.at >= Before.expires_at
    /\ Last.value = LastWrite.value

(* The key's TTL had elapsed and no sweep had removed it when the last call began *)
ExpiredUnswept == Before.in_data /\ ~LiveBefore

(* C30: MemoryStorage's expire and delete of a key whose TTL has elapsed and
   that no sweep has removed return 0, and a get that follows returns None *)
C30_NoRevival ==
    (/\ storageType = "memory"
     /\ LastCall("expire") \/ LastCall("delete")
     /\ ExpiredUnswept)
    => /\ Last.kind \in {"expire", "delete"} => Last.value = 0
       /\ Last.kind = "get" => Last.value = None


----------------------------------------------------------------------------
(* Statements about the lifetime of the stored state *)

(* C25: once a check or a reset has returned, every key it has written has an
   expiry, so that the keys of an identity left alone all become absent *)
C25_KeysCarryTtl ==
    pc[Caller] = "idle" => \A k \in DOMAIN data : k \in DOMAIN expirations


(* A get of the counter of the window that starts at second w would return it *)
CounterLive(w) ==
    LET k == SwKey(Ident, w)
    IN /\ k \in DOMAIN data
       /\ ~(k \in DOMAIN expirations /\ expirations[k] <= clock)

(* C26: the counter of a window W in which a sliding-window check was allowed
   expires 2 * interval_seconds after that check, and is readable at every
   instant up to the end of window W+1, whether the later checks fall in W or
   in W+1 *)
C26_CounterRetained ==
    algorithm = "sliding_window" =>
      LET interval_seconds == OptSeconds(policy)
          now == clock \div MsPerSecond
      IN /\ (/\ pc[Caller] = "idle" /\ hist.n >= 1
             /\ IsDecision(Last) /\ Last.allowed)
            => /\ SwKey(Ident, wins.w) \in DOMAIN expirations
               /\ expirations[SwKey(Ident, wins.w)]
                    = clock + 2 * interval_seconds * MsPerSecond
         /\ (wins.cur >= 1 /\ now < wins.w + 2 * interval_seconds)
            => CounterLive(wins.w)
         /\ (wins.prev >= 1 /\ now < wins.w + interval_seconds)
            => CounterLive(wins.w - interval_seconds)

(* Half of window W+1 has passed since the allowed check in W, the cleaner has
   swept, and the counter of W is still there *)
C26_Witness ==
    /\ algorithm = "sliding_window"
    /\ storageType = "memory"
    /\ cleaner = "sleep"
    /\ wins.cur >= 1
    /\ clock \div MsPerSecond >= wins.w + OptSeconds(policy)
    /\ clock > (wins.w + OptSeconds(policy)) * MsPerSecond
    /\ CounterLive(wins.w)
    /\ SwKey(Ident, wins.w) \in DOMAIN expirations


(* The key is in the store and its expiry, if it has one, has not passed *)
KeyLive(k) ==
    /\ k \in DOMAIN data
    /\ ~(k \in DOMAIN expirations /\ expirations[k] <= clock)

(* C27: when no check is running, whether the checks made so far returned or
   were abandoned at a storage call, the stored state is one that completed
   checks produce: the token count and the last-refill timestamp are there
   together and were written at the instant the timestamp names, and every
   key in the store, so every sliding-window counter, has an expiry *)
C27_AbandonmentSafe ==
    pc[Caller] = "idle" =>
      /\ KeyLive(TbKey(Ident)) <=> KeyLive(TbLastKey(Ident))
      /\ KeyLive(TbKey(Ident)) /\ KeyLive(TbLastKey(Ident))
         => /\ TbKey(Ident) \in DOMAIN expirations
            /\ expirations[TbKey(Ident)]
                 = IntOf(data[TbLastKey(Ident)]) + OptSeconds(policy) * MsPerSecond
      /\ \A k \in DOMAIN data : KeyLive(k) => k \in DOMAIN expirations


----------------------------------------------------------------------------
(* Statements about the token bucket's stored state *)

(* The token count in the store was written by a check (which gives it an
   expiry), or by a reset made with the policy that has just returned *)
WrittenUnderPolicy ==
    /\ algorithm = "token_bucket"
    /\ policy.rate >= 1
    /\ TbKey(Ident) \in DOMAIN data
    /\ \/ TbKey(Ident) \in DOMAIN expirations
       \/ /\ pc[Caller] = "idle"
          /\ hist.start = "reset"
          /\ hist.n = 0
          /\ SamePolicy(hist.reset.opts)

(* C28: the token count stored under tb:<identity> by the checks and resets
   made with a policy of rate R >= 1 is a number from 0 to R *)
C28_TokensInRange ==
    WrittenUnderPolicy
    => /\ FloatParses(data[TbKey(Ident)])
       /\ 0 <= StoredTokens
       /\ StoredTokens <= policy.rate * TokScale

(* The checks that followed a reset have used the bucket up *)
C28_Witness ==
    /\ WrittenUnderPolicy
    /\ TbKey(Ident) \in DOMAIN expirations
    /\ hist.start = "reset"
    /\ InRun
    /\ StoredTokens = 0


(* C29: of the token-bucket checks made one after another under a policy of
   rate R, those allowed in a span of T seconds number at most
   R + T * R / interval_seconds, also when the stored state expires within the
   span.  The span runs from hist.mark to now; both sides of the inequality
   are multiplied by the interval in milliseconds *)
C29_RateBound ==
    (hist.mark >= 0 /\ clock >= hist.mark)
    => hist.count * IntervalMs
         <= policy.rate * IntervalMs + (clock - hist.mark) * policy.rate

(* The bound is met by a span in which the state expired: a check, then an
   interval or more without any call, then checks again *)
C29_Witness ==
    /\ hist.mark >= 0
    /\ clock > hist.mark
    /\ hist.count > policy.rate
    /\ hist.count * IntervalMs
         = policy.rate * IntervalMs + (clock - hist.mark) * policy.rate
    /\ hist.n >= 1
    /\ hist.idle >= IntervalMs
    /\ pc[Caller] = "idle"


----------------------------------------------------------------------------
(* Statements that compare or constrain the two storages (StoreSpec) *)

(* The key was readable and had an expiry still to come when the last call began *)
PendingExpiry == LiveBefore /\ Before.in_expirations

(* C31: in MemoryStorage as in Redis, incr of a key with a pending expiry
   leaves that expiry as it was, so that a get made once that expiry has
   passed returns None on both *)
C31_IncrKeepsExpiry ==
    (LastCall("incr") /\ PendingExpiry)
    => /\ Last.kind = "int"
          => /\ IncrKey \in DOMAIN expirations
             /\ expirations[IncrKey] = Before.expires_at
       /\ (Last.kind = "get" /\ Last.at >= Before.expires_at)
          => Last.value = None


(* C32: between two closes RedisStorage makes at most one client, however
   many operations are started while connected is false, and every operation
   under way calls the client that self.redis holds *)
C32_SingleConnection ==
    /\ connection.created <= 1
    /\ \A p \in Procs :
         pc[p] = "redis_call" => loc[p].client = connection.redis


(* C33: in MemoryStorage every key of _expirations is a key of _data, after
   any get, set, incr, expire, delete and sweep *)
C33_ExpirationsHaveData ==
    storageType = "memory" => DOMAIN expirations \subseteq DOMAIN data

(* A key with an expiry has been deleted, and both of its entries are gone *)
C33_Witness ==
    /\ storageType = "memory"
    /\ Last.kind = "delete"
    /\ LastCall("delete")
    /\ Last.value = 1
    /\ Before.in_expirations
    /\ IncrKey \notin DOMAIN data
    /\ IncrKey \notin DOMAIN expirations

====
